---- MODULE Spec2Model ----
(***************************************************************************)
(* The club rail (src/lib/components/layout/ClubRail.svelte) and the app   *)
(* shell that owns its state (src/routes/app/+layout.svelte).              *)
(*                                                                         *)
(* Optional values (string | null, field?: T) are sequences of length at   *)
(* most one: <<>> is null / undefined, <<x>> is the value x.  A string id  *)
(* therefore never equals null, as with the === of the source.             *)
(* A text (a name, a label, a badge) is the sequence of its UTF-16 code    *)
(* units, each a one-character string.                                     *)
(***************************************************************************)
EXTENDS Naturals, Integers, Sequences, FiniteSets, TLC

VARIABLES
    passed,           \* what the owner passes for clubs, selectedClubId and
                      \*   showHome: each Null (not passed) or Some(value)
    clubs,            \* the ClubSummary[] the rail renders
    selectedClubId,   \* the selection: Null or Some(id)
    showHome,         \* whether the rail renders Home
    select,           \* the callback props of the rail: "undefined",
    create,           \*   "handleSelect" (the shell's function) or "spy"
    settings,         \*   (an owner's function that only observes)
    view,             \* the rail as last rendered: a sequence of entries
    calls,            \* the callback invocations made by the last step
    lastAct,          \* the last step: [kind, key]
    lastSelect        \* the targets of the latest two selection events
                      \*   that reached handleSelect, the latest first

vars == <<passed, clubs, selectedClubId, showHome, select, create, settings,
          view, calls, lastAct, lastSelect>>

(***************************************************************************)
(* Bounds of the model.                                                    *)
(***************************************************************************)
\* longest club collection enumerated besides the shell's own list
MaxClubs == 2
\* largest unreadCount enumerated
MaxUnread == 101
\* largest mentionCount enumerated
MaxMention == 2
\* longest name typed code unit by code unit
MaxNameLen == 5

(***************************************************************************)
(* Data.                                                                   *)
(***************************************************************************)
Null == <<>>
Some(x) == <<x>>
Undefined == "undefined"

\* the texts of the source, as code units
TextHomebrewGuild == <<"H", "o", "m", "e", "b", "r", "e", "w", " ", "G", "u", "i", "l", "d">>
TextSynthwaveCafe == <<"S", "y", "n", "t", "h", "w", "a", "v", "e", " ", "C", "a", "f", "e">>
TextDevCollective == <<"D", "e", "v", " ", "C", "o", "l", "l", "e", "c", "t", "i", "v", "e">>
TextPixelArtists == <<"P", "i", "x", "e", "l", " ", "A", "r", "t", "i", "s", "t", "s">>
TextNightGamers == <<"N", "i", "g", "h", "t", " ", "G", "a", "m", "e", "r", "s">>
TextPlantParents == <<"P", "l", "a", "n", "t", " ", "P", "a", "r", "e", "n", "t", "s">>
TextHome == <<"H", "o", "m", "e">>
TextCreateClub == <<"C", "r", "e", "a", "t", "e", " ", "c", "l", "u", "b">>
TextCreateAClub == <<"C", "r", "e", "a", "t", "e", " ", "a", " ", "c", "l", "u", "b">>
TextSettings == <<"S", "e", "t", "t", "i", "n", "g", "s">>
TextHomebrew == <<"H", "o", "m", "e", "b", "r", "e", "w">>
TextMidnightSunClub ==
    <<"m", "i", "d", "n", "i", "g", "h", "t", " ", "s", "u", "n", " ", "c", "l", "u", "b">>
TextSpaces == <<" ", " ", " ">>
TextQuestionMark == <<"?">>
TextNinetyNinePlus == <<"9", "9", "+">>

\* type ClubSummary, with every optional field absent
ClubSummary(id, name) ==
    [id |-> id, name |-> name, iconUrl |-> Null, unreadCount |-> Null,
     mentionCount |-> Null, accentColor |-> Null]

\* const clubs of the shell
ShellClubs ==
    << [ClubSummary("homebrew", TextHomebrewGuild)
            EXCEPT !.accentColor = Some("#fbff86"), !.unreadCount = Some(3)],
       [ClubSummary("synthwave", TextSynthwaveCafe)
            EXCEPT !.accentColor = Some("#905ea9")],
       [ClubSummary("devs", TextDevCollective)
            EXCEPT !.accentColor = Some("#30e1b9"), !.mentionCount = Some(1)],
       [ClubSummary("pixels", TextPixelArtists)
            EXCEPT !.accentColor = Some("#fbb954")],
       [ClubSummary("gamers", TextNightGamers)
            EXCEPT !.accentColor = Some("#4d9be6")],
       [ClubSummary("plants", TextPlantParents)
            EXCEPT !.accentColor = Some("#91db69")] >>

\* the clubs the enumerated collections are built from: one with an unread
\* count, one with neither count, one with a mention count
Pool == {ShellClubs[1], ShellClubs[2], ShellClubs[3]}

\* the clubs of the end-to-end scenario of the rail
ScenarioClubs ==
    << [ClubSummary("homebrew", TextHomebrewGuild)
            EXCEPT !.unreadCount = Some(3)],
       [ClubSummary("devs", TextDevCollective)
            EXCEPT !.mentionCount = Some(1)] >>

\* Every sequence of at most MaxClubs pool clubs with pairwise distinct ids
\* (the keyed each-block of the rail requires unique keys): the collections
\* an owner passes to the rail.
PoolCollections ==
    UNION {{c \in [1..n -> Pool] :
              \A i, j \in 1..n : i # j => c[i].id # c[j].id} :
           n \in 0..MaxClubs}

\* The collections the shell is set up with: its own list, the scenario's,
\* and the pool's.
Collections == {ShellClubs, ScenarioClubs} \cup PoolCollections

\* an id that no club carries
GhostId == "ghost"

\* every value a selection can take: null, a club's id, an unknown id
IdOrNull ==
    {Null} \cup {Some(ShellClubs[i].id) : i \in 1..Len(ShellClubs)}
           \cup {Some(GhostId)}

ClubIds(cs) == {cs[i].id : i \in 1..Len(cs)}

\* the values an owner passes for selectedClubId: null, a pool club's id,
\* an unknown id
PoolIdOrNull == {Null} \cup {Some(c.id) : c \in Pool} \cup {Some(GhostId)}

(***************************************************************************)
(* The shell.                                                              *)
(***************************************************************************)
\* slip: the selection starts at home whatever the collection
InitialSelectionHome(cs) == Null

\* slip: $state(clubs[0]?.id ?? ""), an empty id for an empty collection
InitialSelectionEmptyString(cs) ==
    IF Len(cs) > 0 THEN Some(cs[1].id) ELSE Some("")

\* $state(clubs[0]?.id ?? null)
InitialSelection(cs) == IF Len(cs) > 0 THEN Some(cs[1].id) ELSE Null

\* slip: selectedClubId = payload.id ?? selectedClubId
handleSelectKeepsOnNull(payload) ==
    IF payload.id = Null THEN selectedClubId ELSE payload.id

\* slip: selecting what is selected already toggles back to home
handleSelectToggles(payload) ==
    IF payload.id = selectedClubId THEN Null ELSE payload.id

\* slip: an id that no club carries is dropped
handleSelectValidated(payload) ==
    IF payload.id = Null \/ payload.id[1] \in ClubIds(clubs)
    THEN payload.id ELSE selectedClubId

\* slip: a selection is taken only while nothing is selected
handleSelectFirstWins(payload) ==
    IF selectedClubId = Null THEN payload.id ELSE selectedClubId

\* function handleSelect(payload): the value selectedClubId is assigned
handleSelect(payload) == payload.id

(***************************************************************************)
(* The rail.                                                               *)
(***************************************************************************)
\* the call an onclick handler makes: fn?.(...args)
Call(fn, args) == [fn |-> fn, args |-> args]

\* slip: the Home button wired to create
HomeOnClickCreate == Call("create", <<>>)

\* onclick of the Home button
HomeOnClick == Call("select", <<[id |-> Null]>>)

\* slip: the club's name is sent for its id
ClubOnClickName(club) == Call("select", <<[id |-> Some(club.name)]>>)

\* slip: every club button sends one fixed id, which no club need carry
ClubOnClickStale(club) == Call("select", <<[id |-> Some(GhostId)]>>)

\* onclick of a club button
ClubOnClick(club) == Call("select", <<[id |-> Some(club.id)]>>)

\* slip: the create button wired to settings
CreateOnClickSettings == Call("settings", <<>>)

\* slip: the create button left with the Home button's handler
CreateOnClickHome == Call("select", <<[id |-> Null]>>)

\* onclick of the create button
CreateOnClick == Call("create", <<>>)

\* onclick of the settings button
SettingsOnClick == Call("settings", <<>>)

\* slip: Home takes the ring whenever no rendered club matches
HomeSelectedFallback(sel) == sel = Null \/ sel[1] \notin ClubIds(clubs)

\* slip: the Home button never takes the ring
HomeSelectedNever(sel) == FALSE

\* the ring of the Home button: selectedClubId === null
HomeSelected(sel) == sel = Null

\* slip: the ring tests selectedClubId for truthiness only
ClubSelectedTruthy(sel, club) == sel # Null

\* slip: the rail keeps the entry activated last and rings it as well
ClubSelectedSticky(sel, club) ==
    sel = Some(club.id) \/ lastAct = [kind |-> "club", key |-> Some(club.id)]

\* the ring of a club button: selectedClubId === club.id
ClubSelected(sel, club) == sel = Some(club.id)

\* /\s/, and what trim() strips: the space and the tab stand for the class
WhiteSpace == {" ", "\t"}

LowerCase ==
    <<"a", "b", "c", "d", "e", "f", "g", "h", "i", "j", "k", "l", "m",
      "n", "o", "p", "q", "r", "s", "t", "u", "v", "w", "x", "y",
      "z">>

UpperCase ==
    <<"A", "B", "C", "D", "E", "F", "G", "H", "I", "J", "K", "L", "M",
      "N", "O", "P", "Q", "R", "S", "T", "U", "V", "W", "X", "Y",
      "Z">>

\* String.prototype.toUpperCase of one code unit; the sharp s has no single
\* upper-case code unit and becomes "SS".  UpperOf is its table.
UpperOf ==
    [c \in {LowerCase[i] : i \in DOMAIN LowerCase} \cup {"ß"} |->
        IF c = "ß" THEN <<"S", "S">>
        ELSE <<UpperCase[CHOOSE i \in DOMAIN LowerCase : LowerCase[i] = c]>>]

HasUpper == DOMAIN UpperOf

toUpperCase(c) == IF c \in HasUpper THEN UpperOf[c] ELSE <<c>>

\* the first index from i on that holds no white space (Len(s) + 1 if none)
RECURSIVE skipWhite(_, _)
skipWhite(s, i) ==
    IF i <= Len(s) /\ s[i] \in WhiteSpace THEN skipWhite(s, i + 1) ELSE i

\* the last index up to i that holds no white space (0 if none)
RECURSIVE skipWhiteBack(_, _)
skipWhiteBack(s, i) ==
    IF i >= 1 /\ s[i] \in WhiteSpace THEN skipWhiteBack(s, i - 1) ELSE i

\* String.prototype.trim
trim(s) == SubSeq(s, skipWhite(s, 1), skipWhiteBack(s, Len(s)))

\* the pieces of s between its maximal runs of white space: i is the index
\* being read, from the start of the piece being read, acc the pieces so far
RECURSIVE splitFrom(_, _, _, _)
splitFrom(s, i, from, acc) ==
    IF i > Len(s) THEN Append(acc, SubSeq(s, from, Len(s)))
    ELSE IF s[i] \in WhiteSpace
         THEN LET j == skipWhite(s, i)
              IN  splitFrom(s, j, j, Append(acc, SubSeq(s, from, i - 1)))
         ELSE splitFrom(s, i + 1, from, acc)

\* s.split(/\s+/): "" gives [""], and white space at an end gives ""
split(s) == splitFrom(s, 1, 1, <<>>)

\* (s) => s[0]?.toUpperCase(): undefined for the empty piece
firstUpper(s) == IF s = <<>> THEN Null ELSE Some(toUpperCase(s[1]))

\* Boolean(x) of a string or undefined
Boolean(x) == x # Null /\ x[1] # <<>>

\* slip: every piece contributes a letter, not the first two only
initialsOfAllPieces(name) ==
    LET pieces == split(trim(name))
        p == SelectSeq([i \in DOMAIN pieces |-> firstUpper(pieces[i])],
                       Boolean)
    IN  IF p = <<>> THEN TextQuestionMark
        ELSE IF Len(p) = 1 THEN p[1][1]
        ELSE IF Len(p) = 2 THEN p[1][1] \o p[2][1]
        ELSE p[1][1] \o p[2][1] \o p[3][1]

\* function initials(name)
initials(name) ==
    LET pieces == split(trim(name))
        p == SelectSeq([i \in DOMAIN pieces |-> firstUpper(pieces[i])],
                       Boolean)
    IN  (IF Len(p) >= 1 THEN p[1][1] ELSE TextQuestionMark)
            \o (IF Len(p) >= 2 THEN p[2][1] ELSE <<>>)

DigitText == <<"0", "1", "2", "3", "4", "5", "6", "7", "8", "9">>

\* {n} in the template: the decimal text of a non-negative integer
RECURSIVE NumberText(_)
NumberText(n) ==
    IF n < 10 THEN <<DigitText[n + 1]>>
    ELSE Append(NumberText(n \div 10), DigitText[(n % 10) + 1])

\* {#if x} of an optional number: present and not 0
TruthyNumber(x) == x # Null /\ x[1] # 0

\* {#if x} / x ? a : b of an optional string: present and not ""
TruthyString(x) == x # Null /\ x[1] # ""

\* slip: the image is rendered for every iconUrl that is not null, the
\* empty one included
AvatarImageWhenDefined(club) ==
    IF club.iconUrl # Null THEN Some(club.iconUrl[1]) ELSE Null

\* {#if club.iconUrl} <AvatarImage src={club.iconUrl}>
AvatarImage(club) ==
    IF TruthyString(club.iconUrl) THEN Some(club.iconUrl[1]) ELSE Null

\* style of AvatarFallback: the accent colour as background, or ""
FallbackStyle(club) ==
    IF TruthyString(club.accentColor) THEN Some(club.accentColor[1]) ELSE Null

\* slip: the cap starts at 99 instead of above it
UnreadBadgeCapsAt99(club) ==
    IF TruthyNumber(club.unreadCount)
    THEN Some(IF club.unreadCount[1] >= 99 THEN TextNinetyNinePlus
              ELSE NumberText(club.unreadCount[1]))
    ELSE Null

\* {#if club.unreadCount}: the text of the unread badge, or no badge
UnreadBadge(club) ==
    IF TruthyNumber(club.unreadCount)
    THEN Some(IF club.unreadCount[1] > 99 THEN TextNinetyNinePlus
              ELSE NumberText(club.unreadCount[1]))
    ELSE Null

\* slip: the dot gives way to the unread badge
MentionDotUnlessUnread(club) ==
    TruthyNumber(club.mentionCount) /\ ~TruthyNumber(club.unreadCount)

\* slip: the dot tests the unread count
MentionDotOfUnread(club) == TruthyNumber(club.unreadCount)

\* {#if club.mentionCount}: whether the mention dot is there
MentionDot(club) == TruthyNumber(club.mentionCount)

\* a button of the rail; the avatar and the overlays are a club button's
Entry(kind, key, ariaLabel, tooltip, selected, onclick) ==
    [kind |-> kind, key |-> key, ariaLabel |-> ariaLabel,
     tooltip |-> tooltip, selected |-> selected, onclick |-> onclick,
     image |-> Null, fallback |-> Null, fallbackStyle |-> Null,
     badge |-> Null, mention |-> FALSE]

HomeEntry(sel) ==
    Entry("home", Null, TextHome, TextHome, HomeSelected(sel), HomeOnClick)

ClubEntry(club, sel) ==
    [Entry("club", Some(club.id), club.name, club.name,
           ClubSelected(sel, club), ClubOnClick(club))
        EXCEPT !.image = AvatarImage(club),
               !.fallback = Some(initials(club.name)),
               !.fallbackStyle = FallbackStyle(club),
               !.badge = UnreadBadge(club),
               !.mention = MentionDot(club)]

CreateEntry ==
    Entry("create", Null, TextCreateClub, TextCreateAClub, FALSE,
          CreateOnClick)

SettingsEntry ==
    Entry("settings", Null, TextSettings, TextSettings, FALSE,
          SettingsOnClick)

\* slip: Home is rendered whenever it would carry the ring
RenderHomeWhenSelected(cs, sel, sh) ==
    (IF sh \/ sel = Null THEN <<HomeEntry(sel)>> ELSE <<>>)
        \o [i \in 1..Len(cs) |-> ClubEntry(cs[i], sel)]
        \o <<CreateEntry, SettingsEntry>>

\* slip: the actions are placed above the clubs
RenderActionsFirst(cs, sel, sh) ==
    (IF sh THEN <<HomeEntry(sel)>> ELSE <<>>)
        \o <<CreateEntry, SettingsEntry>>
        \o [i \in 1..Len(cs) |-> ClubEntry(cs[i], sel)]

\* slip: the overlays are taken from the first club for every entry
RenderFirstClubOverlays(cs, sel, sh) ==
    (IF sh THEN <<HomeEntry(sel)>> ELSE <<>>)
        \o [i \in 1..Len(cs) |->
              [ClubEntry(cs[i], sel) EXCEPT !.badge = UnreadBadge(cs[1]),
                                            !.mention = MentionDot(cs[1])]]
        \o <<CreateEntry, SettingsEntry>>

\* slip: the Home button is outside the {#if showHome} block
RenderHomeAlways(cs, sel, sh) ==
    <<HomeEntry(sel)>>
        \o [i \in 1..Len(cs) |-> ClubEntry(cs[i], sel)]
        \o <<CreateEntry, SettingsEntry>>

\* the template of the rail: the interactive entries, top to bottom
Render(cs, sel, sh) ==
    (IF sh THEN <<HomeEntry(sel)>> ELSE <<>>)
        \o [i \in 1..Len(cs) |-> ClubEntry(cs[i], sel)]
        \o <<CreateEntry, SettingsEntry>>

\* `x = d` in the destructuring of $props(): d when x is not passed
PropDefault(p, d) == IF p = Null THEN d ELSE p[1]

\* clubs = []
PropClubs(p) == PropDefault(p, <<>>)

\* selectedClubId = null
PropSelectedClubId(p) == PropDefault(p, Null)

\* slip: showHome = false
PropShowHomeOff(p) == PropDefault(p, FALSE)

\* showHome = true
PropShowHome(p) == PropDefault(p, TRUE)

\* the callback prop a call goes to
Callback(fn) ==
    CASE fn = "select" -> select
      [] fn = "create" -> create
      [] fn = "settings" -> settings

\* slip: cb(...args), the call made whether or not cb is there
OptCallUnguarded(cb, call) == <<call>>

\* cb?.(...args): the invocations that take place
OptCall(cb, call) == IF cb = Undefined THEN <<>> ELSE <<call>>

\* slip: the rail writes its selectedClubId prop itself before calling
CommitInRail(cb, call, sel) ==
    IF call.fn = "select" THEN call.args[1].id ELSE sel

\* cb?.(...args): the owner's selection once the call has returned
Commit(cb, call, sel) ==
    IF cb = "handleSelect" THEN handleSelect(call.args[1]) ELSE sel

(***************************************************************************)
(* Steps.  Each is one event handler run to completion, followed by the    *)
(* re-render of the rail from the owner's state.                           *)
(***************************************************************************)
Act(kind, key) == [kind |-> kind, key |-> key]

\* the selection events remembered once one more, for target, has arrived
Remember(target, events) ==
    IF events = <<>> THEN <<target>> ELSE <<target, events[1]>>

\* the user activates the rendered entry e
Activate(e) ==
    LET call == e.onclick
        cb == Callback(call.fn)
    IN  /\ calls' = OptCall(cb, call)
        /\ selectedClubId' = Commit(cb, call, selectedClubId)
        /\ passed' = IF cb = "handleSelect"
                     THEN [passed EXCEPT !.selectedClubId = Some(selectedClubId')]
                     ELSE passed
        /\ lastSelect' = IF cb = "handleSelect"
                         THEN Remember(call.args[1].id, lastSelect)
                         ELSE lastSelect
        /\ lastAct' = Act(e.kind, e.key)
        /\ view' = Render(clubs, selectedClubId', showHome)
        /\ UNCHANGED <<clubs, showHome, select, create, settings>>

ClickHome ==
    \E i \in DOMAIN view : view[i].kind = "home" /\ Activate(view[i])

ClickClub ==
    \E i \in DOMAIN view : view[i].kind = "club" /\ Activate(view[i])

ClickCreate ==
    \E i \in DOMAIN view : view[i].kind = "create" /\ Activate(view[i])

ClickSettings ==
    \E i \in DOMAIN view : view[i].kind = "settings" /\ Activate(view[i])

\* a selection event reaches the shell's handleSelect with any payload
DeliverSelect ==
    \E id \in IdOrNull :
        LET call == Call("select", <<[id |-> id]>>)
        IN  /\ select = "handleSelect"
            /\ calls' = <<call>>
            /\ selectedClubId' = handleSelect(call.args[1])
            /\ passed' = [passed EXCEPT !.selectedClubId = Some(selectedClubId')]
            /\ lastSelect' = Remember(id, lastSelect)
            /\ lastAct' = Act("deliver", id)
            /\ view' = Render(clubs, selectedClubId', showHome)
            /\ UNCHANGED <<clubs, showHome, select, create, settings>>

\* the shell's template is evaluated again with its state as it is
Rerender ==
    /\ view' = Render(clubs, selectedClubId, showHome)
    /\ calls' = <<>>
    /\ lastAct' = Act("render", Null)
    /\ UNCHANGED <<passed, clubs, selectedClubId, showHome, select, create,
                   settings, lastSelect>>

\* an owner of the rail passes a new selectedClubId
SetSelected ==
    \E p \in {Some(id) : id \in PoolIdOrNull} :
        /\ passed' = [passed EXCEPT !.selectedClubId = p]
        /\ selectedClubId' = PropSelectedClubId(p)
        /\ view' = Render(clubs, selectedClubId', showHome)
        /\ calls' = <<>>
        /\ lastAct' = Act("props", Null)
        /\ UNCHANGED <<clubs, showHome, select, create, settings, lastSelect>>

\* an owner of the rail passes a new clubs collection
SetClubs ==
    \E p \in {Some(cs) : cs \in PoolCollections} :
        /\ passed' = [passed EXCEPT !.clubs = p]
        /\ clubs' = PropClubs(p)
        /\ view' = Render(clubs', selectedClubId, showHome)
        /\ calls' = <<>>
        /\ lastAct' = Act("props", Null)
        /\ UNCHANGED <<selectedClubId, showHome, select, create, settings,
                       lastSelect>>

\* an owner of the rail passes a new showHome
SetShowHome ==
    \E p \in {Some(sh) : sh \in BOOLEAN} :
        /\ passed' = [passed EXCEPT !.showHome = p]
        /\ showHome' = PropShowHome(p)
        /\ view' = Render(clubs, selectedClubId, showHome')
        /\ calls' = <<>>
        /\ lastAct' = Act("props", Null)
        /\ UNCHANGED <<clubs, selectedClubId, select, create, settings,
                       lastSelect>>

(***************************************************************************)
(* Spec: the shell with its rail.                                          *)
(***************************************************************************)
\* what a mount passes, and what the rail makes of it
Mount(pc, ps, ph) ==
    /\ passed = [clubs |-> pc, selectedClubId |-> ps, showHome |-> ph]
    /\ clubs = PropClubs(pc)
    /\ selectedClubId = PropSelectedClubId(ps)
    /\ showHome = PropShowHome(ph)

\* <ClubRail {clubs} {selectedClubId} select={handleSelect} ...>
Init ==
    /\ \E cs \in Collections :
          Mount(Some(cs), Some(InitialSelection(cs)), Null)
    /\ select = "handleSelect"
    /\ create = Undefined
    /\ settings = Undefined
    /\ calls = <<>>
    /\ lastAct = Act("mount", Null)
    /\ lastSelect = <<>>
    /\ view = Render(clubs, selectedClubId, showHome)

Next ==
    \/ ClickHome
    \/ ClickClub
    \/ ClickCreate
    \/ ClickSettings
    \/ DeliverSelect
    \/ Rerender

Spec == Init /\ [][Next]_vars

(***************************************************************************)
(* ShellRailSpec: the shell with its rail, driven by the rail's buttons    *)
(* alone.                                                                  *)
(***************************************************************************)
ShellRailNext ==
    \/ ClickHome
    \/ ClickClub
    \/ ClickCreate
    \/ ClickSettings

ShellRailSpec == Init /\ [][ShellRailNext]_vars

(***************************************************************************)
(* RailSpec: the rail under any owner.                                     *)
(***************************************************************************)
RailInit ==
    /\ \E pc \in {Null} \cup {Some(cs) : cs \in PoolCollections},
          ps \in {Null} \cup {Some(id) : id \in PoolIdOrNull},
          ph \in {Null} \cup {Some(sh) : sh \in BOOLEAN} :
          Mount(pc, ps, ph)
    /\ select \in {Undefined, "spy", "handleSelect"}
    /\ create \in {Undefined, "spy"}
    /\ settings \in {Undefined, "spy"}
    /\ calls = <<>>
    /\ lastAct = Act("mount", Null)
    /\ lastSelect = <<>>
    /\ view = Render(clubs, selectedClubId, showHome)

RailNext ==
    \/ ClickHome
    \/ ClickClub
    \/ ClickCreate
    \/ ClickSettings
    \/ SetSelected
    \/ SetClubs
    \/ SetShowHome

RailSpec == RailInit /\ [][RailNext]_vars

(***************************************************************************)
(* BadgeSpec and NameSpec: the rail with one club, whose owner replaces    *)
(* the club by one that differs in a field.                                *)
(***************************************************************************)
\* the owner passes the collection cs in place of the present one
PassClubs(cs) ==
    /\ passed' = [passed EXCEPT !.clubs = Some(cs)]
    /\ clubs' = PropClubs(Some(cs))
    /\ view' = Render(clubs', selectedClubId, showHome)
    /\ calls' = <<>>
    /\ lastAct' = Act("props", Null)
    /\ UNCHANGED <<selectedClubId, showHome, select, create, settings,
                   lastSelect>>

\* the rail mounted with the one club given and nothing else
CardInit(club) ==
    /\ Mount(Some(<<club>>), Null, Null)
    /\ select = Undefined
    /\ create = Undefined
    /\ settings = Undefined
    /\ calls = <<>>
    /\ lastAct = Act("mount", Null)
    /\ lastSelect = <<>>
    /\ view = Render(clubs, selectedClubId, showHome)

\* unreadCount?: number, a non-negative integer when present
UnreadCounts == {Null} \cup {Some(n) : n \in 0..MaxUnread}

\* mentionCount?: number, a non-negative integer when present
MentionCounts == {Null} \cup {Some(n) : n \in 0..MaxMention}

\* iconUrl?: string | null
IconUrls == {Null, Some(""), Some("https://cdn.example/icon.png")}

\* accentColor?: string | null
AccentColors == {Null, Some(""), Some("#fbff86")}

SetUnreadCount ==
    /\ Len(clubs) = 1
    /\ \E u \in UnreadCounts :
          PassClubs(<<[clubs[1] EXCEPT !.unreadCount = u]>>)

SetMentionCount ==
    /\ Len(clubs) = 1
    /\ \E m \in MentionCounts :
          PassClubs(<<[clubs[1] EXCEPT !.mentionCount = m]>>)

SetIconUrl ==
    /\ Len(clubs) = 1
    /\ \E u \in IconUrls : PassClubs(<<[clubs[1] EXCEPT !.iconUrl = u]>>)

SetAccentColor ==
    /\ Len(clubs) = 1
    /\ \E a \in AccentColors :
          PassClubs(<<[clubs[1] EXCEPT !.accentColor = a]>>)

BadgeInit == CardInit(ClubSummary("homebrew", TextHomebrewGuild))

BadgeNext ==
    \/ SetUnreadCount
    \/ SetMentionCount
    \/ SetIconUrl
    \/ SetAccentColor

BadgeSpec == BadgeInit /\ [][BadgeNext]_vars

\* the code units names are typed from: white space, a lower-case and an
\* upper-case letter, and a letter whose upper case is two code units
NameUnits == {" ", "\t", "a", "B", "ß"}

\* the names of the source and of its documentation
ExampleNames ==
    {ShellClubs[i].name : i \in 1..Len(ShellClubs)}
        \cup {TextHomebrew, TextMidnightSunClub, TextSpaces}

\* the owner renames the club by one more code unit
TypeName ==
    /\ Len(clubs) = 1
    /\ Len(clubs[1].name) < MaxNameLen
    /\ \E c \in NameUnits :
          PassClubs(<<[clubs[1] EXCEPT !.name = Append(@, c)]>>)

\* the owner renames the club to a whole name
SetName ==
    /\ Len(clubs) = 1
    /\ \E n \in ExampleNames \cup {<<>>} :
          PassClubs(<<[clubs[1] EXCEPT !.name = n]>>)

NameInit == CardInit(ClubSummary("homebrew", <<>>))

NameNext ==
    \/ TypeName
    \/ SetName

NameSpec == NameInit /\ [][NameNext]_vars

(***************************************************************************)
(* BareRailSpec: the rail under any owner, over clubs that carry an id and *)
(* a name and none of the optional fields.                                 *)
(***************************************************************************)
BareClubs ==
    << ClubSummary("homebrew", TextHomebrewGuild),
       ClubSummary("devs", TextDevCollective) >>

BareRailInit ==
    /\ \E ps \in {Null} \cup {Some(id) : id \in PoolIdOrNull},
          ph \in {Null} \cup {Some(sh) : sh \in BOOLEAN} :
          Mount(Some(BareClubs), ps, ph)
    /\ select \in {Undefined, "spy", "handleSelect"}
    /\ create \in {Undefined, "spy"}
    /\ settings \in {Undefined, "spy"}
    /\ calls = <<>>
    /\ lastAct = Act("mount", Null)
    /\ lastSelect = <<>>
    /\ view = Render(clubs, selectedClubId, showHome)

BareRailNext ==
    \/ ClickHome
    \/ ClickClub
    \/ ClickCreate
    \/ ClickSettings
    \/ SetSelected
    \/ SetShowHome

BareRailSpec == BareRailInit /\ [][BareRailNext]_vars

(***************************************************************************)
(* Properties.                                                             *)
(***************************************************************************)
ClickKinds == {"home", "club", "create", "settings"}

\* the rendered entries that carry the selection ring
Marked(v) == {i \in DOMAIN v : v[i].selected}

\* the rendered entries that stand for the destination sel
EntriesOf(v, sel) ==
    {i \in DOMAIN v : v[i].kind \in {"home", "club"} /\ v[i].key = sel}

\* C1: whatever selectedClubId is (null, an id in clubs, an id not in
\* clubs) and whatever the club collection, the rendered rail marks at most
\* one entry, Home or a club, as selected.
SelectionExclusive == Cardinality(Marked(view)) <= 1

\* the selection is a club of a collection of two or more, and its entry
\* alone carries the ring
SelectionExclusiveWitness ==
    /\ showHome
    /\ Len(clubs) >= 2
    /\ selectedClubId # Null
    /\ selectedClubId[1] \in ClubIds(clubs)
    /\ Cardinality(Marked(view)) = 1
    /\ \A i \in Marked(view) : view[i].kind = "club"

\* C2: in any render the Home entry, when rendered, is marked iff
\* selectedClubId is null, and each club's entry is marked iff the club's id
\* equals selectedClubId.
PerEntryMarking ==
    /\ showHome => \E i \in DOMAIN view : view[i].kind = "home"
    /\ \A i \in DOMAIN view :
          view[i].kind = "home" => (view[i].selected <=> selectedClubId = Null)
    /\ \A j \in 1..Len(clubs) :
          /\ \E i \in DOMAIN view :
                view[i].kind = "club" /\ view[i].key = Some(clubs[j].id)
          /\ \A i \in DOMAIN view :
                (view[i].kind = "club" /\ view[i].key = Some(clubs[j].id))
                    => (view[i].selected <=> selectedClubId = Some(clubs[j].id))

\* the selection is an id no rendered club carries, and neither Home nor a
\* club is marked
PerEntryMarkingWitness ==
    /\ showHome
    /\ Len(clubs) >= 1
    /\ selectedClubId # Null
    /\ selectedClubId[1] \notin ClubIds(clubs)
    /\ \E i \in DOMAIN view : view[i].kind = "home" /\ ~view[i].selected
    /\ \A i \in DOMAIN view : view[i].kind = "club" => ~view[i].selected

\* C3: after any sequence of selection events delivered to the shell, the
\* selection is the target of the latest event (the initial selection if
\* there was none), and the rail as rendered after the event marks that
\* target's entry and no other.
LastEventWins ==
    LET target == IF lastSelect = <<>> THEN InitialSelection(clubs)
                  ELSE lastSelect[1]
    IN  /\ selectedClubId = target
        /\ Marked(view) = EntriesOf(view, target)

\* a selection event moved the selection off the initial one, another step
\* followed, and the event's target is still selected and marked
LastEventWinsWitness ==
    /\ lastSelect # <<>>
    /\ lastSelect[1] # InitialSelection(clubs)
    /\ lastAct.kind \in {"create", "settings", "render"}
    /\ selectedClubId = lastSelect[1]
    /\ Marked(view) # {}

\* C4: when the shell is set up, its selection is the id of the first club
\* of the collection, and null (home) when the collection is empty.
ShellInitialSelection ==
    lastAct.kind = "mount" =>
        selectedClubId = IF clubs = <<>> THEN Null ELSE Some(Head(clubs).id)

\* the shell as written: six clubs, "homebrew" first and selected
ShellInitialSelectionWitness ==
    /\ lastAct.kind = "mount"
    /\ clubs = ShellClubs
    /\ selectedClubId = Some("homebrew")

\* the step is a select call with payload {id}
SelectCalled(id) == calls = <<Call("select", <<[id |-> id]>>)>>

\* C5: handleSelect({id}) replaces the selection with id, whatever the
\* selection was before and whatever id is (null, an id in clubs, an id in no
\* club): nothing is validated or corrected.
HandleSelectUnconditional ==
    [][\A prior, id \in IdOrNull :
          (selectedClubId = prior /\ select = "handleSelect" /\ SelectCalled(id)')
              => selectedClubId' = id]_vars

\* handleSelect was given null over a collection that has clubs, and the
\* selection is null
HandleSelectUnconditionalWitness ==
    /\ lastAct = Act("deliver", Null)
    /\ clubs # <<>>
    /\ SelectCalled(Null)
    /\ selectedClubId = Null

\* C6: an activation of Home or of a club entry invokes the select callback
\* exactly once, with the id of the activated entry (null for Home), and
\* invokes neither create nor settings.
CallbackFidelity ==
    (lastAct.kind \in {"home", "club"} /\ select # Undefined)
        => calls = <<Call("select", <<[id |-> lastAct.key]>>)>>

\* the entry of club "devs" was activated and select got {id: "devs"}, once
CallbackFidelityWitness ==
    /\ lastAct = Act("club", Some("devs"))
    /\ select = "spy"
    /\ create = "spy"
    /\ settings = "spy"
    /\ calls = <<Call("select", <<[id |-> Some("devs")]>>)>>

\* C7: activating the create action invokes create exactly once and nothing
\* else, activating the settings action invokes settings exactly once and
\* nothing else, and every render offers both actions, each on its own.
ActionCallbacks ==
    /\ (lastAct.kind = "create" /\ create # Undefined)
          => calls = <<Call("create", <<>>)>>
    /\ (lastAct.kind = "settings" /\ settings # Undefined)
          => calls = <<Call("settings", <<>>)>>
    /\ Cardinality({i \in DOMAIN view : view[i].kind = "create"}) = 1
    /\ Cardinality({i \in DOMAIN view : view[i].kind = "settings"}) = 1

\* create was activated where only create is supplied, and it alone ran
ActionCallbacksWitness ==
    /\ lastAct.kind = "create"
    /\ create = "spy"
    /\ settings = Undefined
    /\ select = "spy"
    /\ calls = <<Call("create", <<>>)>>

\* C8: the shell's selection changes only on a selection event: activating
\* create, activating settings and rendering again leave it as it was.
SelectionFrame ==
    [][lastAct'.kind \in {"create", "settings", "render"}
          => selectedClubId' = selectedClubId]_vars

\* create was activated after the selection had moved, and it stayed
SelectionFrameWitness ==
    /\ lastAct.kind = "create"
    /\ lastSelect # <<>>
    /\ selectedClubId = lastSelect[1]
    /\ selectedClubId # InitialSelection(clubs)

\* C9: the rail only invokes callbacks: no activation changes clubs or
\* showHome, and unless the owner's callback commits the change (none is
\* supplied, or it only observes) selectedClubId and the marked entries are
\* the same after the activation as before.
RailNeverMutates ==
    [][lastAct'.kind \in ClickKinds =>
          /\ clubs' = clubs
          /\ showHome' = showHome
          /\ select # "handleSelect" =>
                /\ selectedClubId' = selectedClubId
                /\ Marked(view') = Marked(view)]_vars

\* a club other than the selected one was activated with no select callback
RailNeverMutatesWitness ==
    /\ lastAct.kind = "club"
    /\ select = Undefined
    /\ calls = <<>>
    /\ selectedClubId # lastAct.key
    /\ Marked(view) = EntriesOf(view, selectedClubId)

\* C10: a selection event whose id no club of the collection carries is
\* taken by the shell as it is, and the render that follows marks no entry,
\* neither Home nor a club.
PermissiveUnknownId ==
    (/\ lastSelect # <<>>
     /\ lastSelect[1] # Null
     /\ lastSelect[1][1] \notin ClubIds(clubs))
        => /\ selectedClubId = lastSelect[1]
           /\ Marked(view) = {}

\* the unknown id arrived over a non-empty collection and is the selection
PermissiveUnknownIdWitness ==
    /\ lastAct = Act("deliver", Some(GhostId))
    /\ Len(clubs) >= 2
    /\ selectedClubId = Some(GhostId)
    /\ \A i \in DOMAIN view : ~view[i].selected

\* the rendered entries of the club with this id
ClubEntriesOf(v, id) ==
    {i \in DOMAIN v : v[i].kind = "club" /\ v[i].key = Some(id)}

Digits == {DigitText[i] : i \in DOMAIN DigitText}

\* the number a decimal text stands for
RECURSIVE DecimalValue(_)
DecimalValue(t) ==
    IF t = <<>> THEN 0
    ELSE 10 * DecimalValue(SubSeq(t, 1, Len(t) - 1))
           + (CHOOSE d \in 0..9 : DigitText[d + 1] = t[Len(t)])

\* a decimal text as a count is written: digits only, no leading zero
IsDecimal(t) ==
    /\ t # <<>>
    /\ \A k \in DOMAIN t : t[k] \in Digits
    /\ (Len(t) > 1 => t[1] # "0")

\* C11: for every club the unread badge is shown iff unreadCount is present
\* and not zero; its text is "99+" iff unreadCount is above 99 and the
\* count in decimal otherwise (99 shows 99, 100 shows 99+).
UnreadBadgeRule ==
    \A j \in 1..Len(clubs) :
        /\ ClubEntriesOf(view, clubs[j].id) # {}
        /\ \A i \in ClubEntriesOf(view, clubs[j].id) :
              LET u == clubs[j].unreadCount
                  b == view[i].badge
              IN  /\ b # Null <=> (u # Null /\ u[1] # 0)
                  /\ b # Null =>
                        /\ b[1] = <<"9", "9", "+">> <=> u[1] > 99
                        /\ u[1] <= 99 =>
                              (IsDecimal(b[1]) /\ DecimalValue(b[1]) = u[1])

\* the count 100 is rendered, and its badge reads 99+
UnreadBadgeRuleWitness ==
    /\ Len(clubs) = 1
    /\ clubs[1].unreadCount = Some(100)
    /\ \E i \in DOMAIN view : view[i].badge = Some(<<"9", "9", "+">>)

\* C12: the mention dot is shown iff mentionCount is present and not zero,
\* whatever unreadCount is, and the unread badge is shown iff unreadCount is
\* present and not zero, whatever mentionCount is: both can show at once.
BadgeIndependence ==
    \A j \in 1..Len(clubs) :
        /\ ClubEntriesOf(view, clubs[j].id) # {}
        /\ \A i \in ClubEntriesOf(view, clubs[j].id) :
              LET u == clubs[j].unreadCount
                  m == clubs[j].mentionCount
              IN  /\ view[i].mention <=> (m # Null /\ m[1] # 0)
                  /\ view[i].badge # Null <=> (u # Null /\ u[1] # 0)

\* a club with an unread count and a mention count shows badge and dot
BadgeIndependenceWitness ==
    /\ Len(clubs) = 1
    /\ clubs[1].unreadCount = Some(3)
    /\ clubs[1].mentionCount = Some(1)
    /\ \E i \in DOMAIN view :
          view[i].mention /\ view[i].badge = Some(<<"3">>)

\* where the tokens of a name start: a code unit that is no white space, at
\* the start or after white space
TokenStarts(s) ==
    {i \in DOMAIN s :
        s[i] \notin WhiteSpace /\ (i = 1 \/ s[i - 1] \in WhiteSpace)}

Least(S) == CHOOSE i \in S : \A k \in S : i <= k

\* C13: for every name the fallback text is the first letter of the first
\* white-space-separated token followed by the first letter of the second
\* token if there is one, each in upper case as in the examples; later
\* tokens are ignored; a name that is empty or all white space gives "?"
\* ("Dev Collective" DC, "Homebrew" H, "midnight sun club" MS).
InitialsRule ==
    \A j \in 1..Len(clubs) :
        /\ ClubEntriesOf(view, clubs[j].id) # {}
        /\ \A i \in ClubEntriesOf(view, clubs[j].id) :
              LET name == clubs[j].name
                  starts == TokenStarts(name)
                  first == Least(starts)
                  rest == starts \ {first}
                  text == view[i].fallback[1]
              IN  /\ view[i].fallback # Null
                  /\ starts = {} => text = <<"?">>
                  /\ (starts # {} /\ rest = {})
                        => text = toUpperCase(name[first])
                  /\ (starts # {} /\ rest # {})
                        => text = toUpperCase(name[first])
                                    \o toUpperCase(name[Least(rest)])
                  /\ name = TextDevCollective => text = <<"D", "C">>
                  /\ name = TextHomebrew => text = <<"H">>
                  /\ name = TextMidnightSunClub => text = <<"M", "S">>
                  /\ name = TextSpaces => text = <<"?">>

\* a lower-case name of three tokens, its second after a run of white
\* space, shows the first two letters in upper case and not the third
InitialsRuleWitness ==
    /\ Len(clubs) = 1
    /\ clubs[1].name = <<"a", " ", "\t", "a", "B">>
    /\ \E i \in DOMAIN view : view[i].fallback = Some(<<"A", "A">>)

\* C14: when showHome is false no Home entry is rendered, whatever
\* selectedClubId (null included) and the club collection are.
HomeToggle ==
    ~showHome => \A i \in DOMAIN view : view[i].kind # "home"

\* Home is switched off while the selection is null, over some clubs
HomeToggleWitness ==
    /\ passed.showHome = Some(FALSE)
    /\ ~showHome
    /\ selectedClubId = Null
    /\ Len(clubs) >= 1
    /\ Marked(view) = {}

\* C15: the rail renders Home first when showHome is true, then exactly one
\* entry for each item of clubs in the order of clubs, then the create
\* action, then the settings action.
RenderOrder ==
    LET off == IF showHome THEN 1 ELSE 0
        n == Len(clubs)
    IN  /\ Len(view) = off + n + 2
        /\ showHome => view[1].kind = "home"
        /\ \A j \in 1..n :
              /\ view[off + j].kind = "club"
              /\ view[off + j].key = Some(clubs[j].id)
              /\ view[off + j].tooltip = clubs[j].name
        /\ view[off + n + 1].kind = "create"
        /\ view[off + n + 2].kind = "settings"

\* Home, two clubs in an order other than the shell's, create, settings
RenderOrderWitness ==
    /\ showHome
    /\ Len(clubs) = 2
    /\ clubs[1].id = "devs"
    /\ clubs[2].id = "homebrew"
    /\ Len(view) = 5
    /\ view[2].key = Some("devs")
    /\ view[3].key = Some("homebrew")

\* the same clubs, in any order
IsPermutation(a, b) ==
    /\ Len(a) = Len(b)
    /\ {a[i] : i \in DOMAIN a} = {b[i] : i \in DOMAIN b}

\* what a club's entries present: icon, fallback text and style, overlays
Presentation(v, id) ==
    {[image |-> v[i].image, fallback |-> v[i].fallback,
      fallbackStyle |-> v[i].fallbackStyle, badge |-> v[i].badge,
      mention |-> v[i].mention] : i \in ClubEntriesOf(v, id)}

\* C16: when the rail is rendered again with the same clubs in another
\* order, each club's entry presents the same icon or fallback text, unread
\* badge and mention dot as before: the presentation depends on the club
\* alone, not on its position.
OrderingIndependence ==
    [][IsPermutation(clubs', clubs) =>
          \A j \in 1..Len(clubs) :
              /\ Presentation(view', clubs[j].id) # {}
              /\ Presentation(view', clubs[j].id)
                    = Presentation(view, clubs[j].id)]_vars

\* the owner passed two clubs with different overlays, the one with the
\* mention count first, and each shows its own overlay
OrderingIndependenceWitness ==
    /\ lastAct.kind = "props"
    /\ Len(clubs) = 2
    /\ clubs[1].id = "devs"
    /\ clubs[2].id = "homebrew"
    /\ \A i \in ClubEntriesOf(view, "devs") :
          view[i].mention /\ view[i].badge = Null
    /\ \A i \in ClubEntriesOf(view, "homebrew") :
          ~view[i].mention /\ view[i].badge = Some(<<"3">>)

\* C17: with clubs = [homebrew (unreadCount 3), devs (mentionCount 1)],
\* homebrew selected and Home shown, the rail shows Home unselected,
\* Homebrew Guild selected with badge 3, Dev Collective unselected with the
\* mention dot and no badge; activating Dev Collective calls
\* select({id: "devs"}), and the render that follows shows Dev Collective
\* selected and Homebrew Guild unselected.
EndToEndScenario ==
    (clubs = ScenarioClubs /\ showHome) =>
        /\ Len(view) = 5
        /\ view[1].kind = "home"
        /\ view[2].tooltip = TextHomebrewGuild
        /\ view[3].tooltip = TextDevCollective
        /\ view[2].badge = Some(<<"3">>)
        /\ ~view[2].mention
        /\ view[3].badge = Null
        /\ view[3].mention
        /\ selectedClubId = Some("homebrew") =>
              (~view[1].selected /\ view[2].selected /\ ~view[3].selected)
        /\ lastAct = Act("club", Some("devs")) =>
              /\ calls = <<Call("select", <<[id |-> Some("devs")]>>)>>
              /\ selectedClubId = Some("devs")
              /\ view[3].selected
              /\ ~view[2].selected
              /\ ~view[1].selected

\* Dev Collective was activated in the scenario and now carries the ring
EndToEndScenarioWitness ==
    /\ clubs = ScenarioClubs
    /\ lastAct = Act("club", Some("devs"))
    /\ selectedClubId = Some("devs")
    /\ view[3].selected
    /\ view[2].badge = Some(<<"3">>)

\* the name an entry displays: Home, the club's name, Create a club,
\* Settings
DisplayName(e) ==
    CASE e.kind = "home" -> TextHome
      [] e.kind = "club" ->
            clubs[CHOOSE j \in DOMAIN clubs : Some(clubs[j].id) = e.key].name
      [] e.kind = "create" -> TextCreateAClub
      [] e.kind = "settings" -> TextSettings

\* C18: every interactive entry has an accessible label equal to its display
\* name: Home, the club's name, Create a club, Settings.
AccessibleLabels ==
    \A i \in DOMAIN view : view[i].ariaLabel = DisplayName(view[i])

\* C19: a rail that is passed no clubs, no selectedClubId and no showHome
\* behaves as with clubs empty, selectedClubId null and showHome true: it
\* renders Home marked selected, no club entry, and the two actions.
InputDefaults ==
    (passed.clubs = Null /\ passed.selectedClubId = Null
        /\ passed.showHome = Null) =>
        /\ clubs = <<>>
        /\ selectedClubId = Null
        /\ showHome = TRUE
        /\ Len(view) = 3
        /\ view[1].kind = "home"
        /\ view[1].selected
        /\ view[2].kind = "create"
        /\ view[3].kind = "settings"

\* the rail as mounted with no prop at all
InputDefaultsWitness ==
    /\ lastAct.kind = "mount"
    /\ passed = [clubs |-> Null, selectedClubId |-> Null, showHome |-> Null]
    /\ select = Undefined
    /\ Len(view) = 3
    /\ view[1].selected

\* the one kind of transition of the selection: the entry of target is
\* activated and target becomes the selection
Select(target) ==
    \E i \in DOMAIN view :
        /\ view[i].kind \in {"home", "club"}
        /\ view[i].key = target
        /\ Activate(view[i])
        /\ selectedClubId' = target

\* Home and every club of the collection
Destinations == {Null} \cup {Some(id) : id \in ClubIds(clubs)}

\* C20: in every state the shell and its rail reach, select is enabled for
\* Home and for every club, so every destination is one step away from
\* every state and no state is terminal.
SelectAlwaysEnabled ==
    /\ \A target \in Destinations : ENABLED Select(target)
    /\ ENABLED ShellRailNext

\* the last of the shell's six clubs is selected, after an activation
SelectAlwaysEnabledWitness ==
    /\ clubs = ShellClubs
    /\ lastAct = Act("club", Some("plants"))
    /\ selectedClubId = Some("plants")
    /\ Cardinality(Destinations) = 7

\* the callback prop that the entries of a kind call
KindCallback(kind) ==
    CASE kind \in {"home", "club"} -> select
      [] kind = "create" -> create
      [] kind = "settings" -> settings

\* a club that carries none of its optional fields
IsBare(club) ==
    /\ club.iconUrl = Null
    /\ club.unreadCount = Null
    /\ club.mentionCount = Null
    /\ club.accentColor = Null

\* a club without optional fields renders with its fallback text alone
BareClubRendered ==
    \A j \in 1..Len(clubs) :
        IsBare(clubs[j]) =>
            /\ ClubEntriesOf(view, clubs[j].id) # {}
            /\ \A i \in ClubEntriesOf(view, clubs[j].id) :
                  /\ view[i].image = Null
                  /\ view[i].fallback # Null
                  /\ view[i].fallback[1] # <<>>
                  /\ clubs[j].name = TextHomebrewGuild
                        => view[i].fallback = Some(<<"H", "G">>)
                  /\ clubs[j].name = TextDevCollective
                        => view[i].fallback = Some(<<"D", "C">>)
                  /\ view[i].fallbackStyle = Null
                  /\ view[i].badge = Null
                  /\ ~view[i].mention

\* C21: activating Home, a club entry, create or settings while the
\* callback it calls is not supplied calls nothing (so nothing can throw)
\* and changes no state; and a club without iconUrl, unreadCount,
\* mentionCount and accentColor renders with its fallback text, no image, no
\* badge and no mention dot.
MissingOptionalInputs ==
    /\ []BareClubRendered
    /\ [][(lastAct'.kind \in ClickKinds
              /\ KindCallback(lastAct'.kind) = Undefined)
            => /\ calls' = <<>>
               /\ UNCHANGED <<passed, clubs, selectedClubId, showHome, select,
                              create, settings, view, lastSelect>>]_vars

\* a bare club that is not the selection was activated while select,
\* create and settings are all missing: nothing was called, nothing moved
MissingOptionalInputsWitness ==
    /\ clubs = BareClubs
    /\ select = Undefined
    /\ create = Undefined
    /\ settings = Undefined
    /\ lastAct = Act("club", Some("devs"))
    /\ calls = <<>>
    /\ selectedClubId = Some("homebrew")
    /\ \A i \in ClubEntriesOf(view, "devs") :
          /\ ~view[i].selected
          /\ view[i].fallback = Some(<<"D", "C">>)
          /\ view[i].badge = Null

\* C22: the rail keeps no state of its own: its view is the template's
\* value at (clubs, selectedClubId, showHome) in every state, and a step
\* that leaves the three as they were, whatever was activated, leaves the
\* view as it was.
RailStateless ==
    /\ [](view = Render(clubs, selectedClubId, showHome))
    /\ [][(clubs' = clubs /\ selectedClubId' = selectedClubId
               /\ showHome' = showHome) => view' = view]_vars

\* settings was activated and called while the second of two clubs is the
\* selection: that club alone carries the ring
RailStatelessWitness ==
    /\ lastAct.kind = "settings"
    /\ settings = "spy"
    /\ calls = <<Call("settings", <<>>)>>
    /\ showHome
    /\ Len(clubs) = 2
    /\ selectedClubId = Some(clubs[2].id)
    /\ Marked(view) = {3}

\* C23: a club entry presents the icon image iff iconUrl is present, that
\* is neither null nor empty, and the image is then the iconUrl; otherwise
\* it presents the fallback text derived from the name.
IconOrFallback ==
    \A j \in 1..Len(clubs) :
        /\ ClubEntriesOf(view, clubs[j].id) # {}
        /\ \A i \in ClubEntriesOf(view, clubs[j].id) :
              LET u == clubs[j].iconUrl
                  present == u # Null /\ u[1] # ""
              IN  /\ view[i].image # Null <=> present
                  /\ present => view[i].image = u
                  /\ ~present =>
                        /\ view[i].fallback # Null
                        /\ clubs[j].name = TextHomebrewGuild
                              => view[i].fallback = Some(<<"H", "G">>)

\* the iconUrl is the empty string: no image, the fallback text HG
IconOrFallbackWitness ==
    /\ Len(clubs) = 1
    /\ clubs[1].iconUrl = Some("")
    /\ clubs[1].name = TextHomebrewGuild
    /\ \E i \in DOMAIN view :
          view[i].image = Null /\ view[i].fallback = Some(<<"H", "G">>)

\* the ids of the select calls the step made
SelectIds == {calls[k].args[1].id : k \in {n \in DOMAIN calls : calls[n].fn = "select"}}

\* C24: in every state the shell reaches through activations of its rail,
\* the selection is null or the id of a club of the shell's collection, and
\* so is every id the rail sends: a stale or unknown id never comes from
\* the rail.
RailSelectionKnown ==
    /\ selectedClubId \in Destinations
    /\ SelectIds \subseteq Destinations
    /\ \A k \in DOMAIN lastSelect : lastSelect[k] \in Destinations

\* Home and then the fourth of the shell's six clubs were activated
RailSelectionKnownWitness ==
    /\ clubs = ShellClubs
    /\ lastAct = Act("club", Some("pixels"))
    /\ lastSelect = <<Some("pixels"), Null>>
    /\ selectedClubId = Some("pixels")

\* C25: with Home shown and clubs of unique ids, in every state the shell
\* reaches through activations of its rail exactly one entry is marked: the
\* Home or club entry activated last, and before any such activation the
\* first club (Home if there is no club).
ExactlyOneMarked ==
    LET target == IF lastSelect # <<>> THEN lastSelect[1]
                  ELSE IF clubs = <<>> THEN Null
                  ELSE Some(clubs[1].id)
    IN  showHome =>
            \E i \in DOMAIN view :
                /\ Marked(view) = {i}
                /\ view[i].kind = IF target = Null THEN "home" ELSE "club"
                /\ view[i].key = target
                /\ lastAct.kind \in {"home", "club"} =>
                      (view[i].kind = lastAct.kind /\ view[i].key = lastAct.key)

\* a club, then Home, then create were activated: Home alone is marked
ExactlyOneMarkedWitness ==
    /\ clubs = ShellClubs
    /\ showHome
    /\ lastAct.kind = "create"
    /\ lastSelect = <<Null, Some("devs")>>
    /\ Marked(view) = {1}
    /\ view[1].kind = "home"

\* C26: a selection event for the target that is selected already leaves
\* the shell's state and the rail as they are; and the state after any
\* selection event is fixed by that event's target alone, so after
\* select(a) and then select(b) it is the state select(b) alone gives.
SelectIdempotentLastWins ==
    /\ [](lastSelect # <<>> =>
            /\ selectedClubId = lastSelect[1]
            /\ Marked(view) = EntriesOf(view, lastSelect[1]))
    /\ [][\A b \in IdOrNull :
            (select = "handleSelect" /\ SelectCalled(b)') =>
                /\ selectedClubId' = b
                /\ clubs' = clubs
                /\ showHome' = showHome
                /\ selectedClubId = b =>
                      (selectedClubId' = selectedClubId /\ view' = view
                          /\ passed' = passed)]_vars

\* select of an id that no club carries was followed by select(null)
SelectIdempotentLastWinsWitness ==
    /\ lastSelect = <<Null, Some(GhostId)>>
    /\ lastAct = Act("deliver", Null)
    /\ clubs = ShellClubs
    /\ selectedClubId = Null
    /\ Marked(view) = {1}

\* C27: while showHome is false and selectedClubId is null no entry is
\* marked, and a step that makes a select call is then the activation of a
\* club entry.
HomeHiddenNoSelection ==
    /\ []((~showHome /\ selectedClubId = Null) => Marked(view) = {})
    /\ [][(~showHome /\ selectedClubId = Null
              /\ \E k \in DOMAIN calls' : calls'[k].fn = "select")
            => lastAct'.kind = "club"]_vars

\* with Home hidden and nothing selected a club was activated, its id went
\* to an owner that only observes, and no entry is marked
HomeHiddenNoSelectionWitness ==
    /\ ~showHome
    /\ selectedClubId = Null
    /\ select = "spy"
    /\ lastAct = Act("club", Some("synthwave"))
    /\ calls = <<Call("select", <<[id |-> Some("synthwave")]>>)>>
    /\ Marked(view) = {}
    /\ \A i \in DOMAIN view : view[i].kind # "home"

\* C28: over an empty collection the shell starts at null, the rail
\* renders no club entry and sends no selection but select(null), and the
\* selection is null in every state the rail's buttons lead to.
EmptyCollection ==
    clubs = <<>> =>
        /\ selectedClubId = Null
        /\ \A i \in DOMAIN view : view[i].kind # "club"
        /\ SelectIds \subseteq {Null}
        /\ \A k \in DOMAIN lastSelect : lastSelect[k] = Null

\* over the empty collection Home was activated twice
EmptyCollectionWitness ==
    /\ clubs = <<>>
    /\ lastAct = Act("home", Null)
    /\ calls = <<Call("select", <<[id |-> Null]>>)>>
    /\ lastSelect = <<Null, Null>>
    /\ selectedClubId = Null
    /\ Marked(view) = {1}

\* C29: for every name the fallback text has one or two characters, none
\* of them white space, and it has a second character iff the name has at
\* least two tokens.
InitialsLength ==
    \A j \in 1..Len(clubs) :
        \A i \in ClubEntriesOf(view, clubs[j].id) :
            LET text == view[i].fallback[1]
            IN  /\ Len(text) \in {1, 2}
                /\ \A k \in DOMAIN text : text[k] \notin WhiteSpace
                /\ Len(text) = 2 <=> Cardinality(TokenStarts(clubs[j].name)) >= 2

====
